---------------------------- MODULE Spec2Model ----------------------------
(***************************************************************************)
(* Joint template generators: Box-Joint.py, Dovetail-Joint.py and          *)
(* Joint-Template-Generator.py.  One "Generate" click is one request; the  *)
(* handler of each program is modelled step by step (validation, save      *)
(* dialog, layout, the segmentation loop iteration by iteration, and each  *)
(* export).                                                                *)
(*                                                                         *)
(* Lengths typed by the user are held in micrometres (the field "10" is    *)
(* 10000, "0.1" is 100), so mm * dpi / 25.4 is the exact fraction          *)
(* micrometres * dpi / 25400.  Python's round() is round-half-to-even.     *)
(* Floating-point coordinates are modelled as exact fractions.             *)
(***************************************************************************)
EXTENDS Integers, Sequences, FiniteSets, TLC

(***************************************************************************)
(* Bounds of the model                                                     *)
(***************************************************************************)
\* widest board of the exhaustive grid, in steps of 0.1 mm
MaxBoardWidth == 6
\* deepest board of the exhaustive grid, in steps of 0.1 mm
MaxBoardHeight == 3
\* largest tail count of the exhaustive grid
MaxTails == 3
\* the segment history keeps at most this many segments
MaxSegs == 12
\* longest ratio text enumerated for the parser
MaxLen == 4

(***************************************************************************)
(* Exact fractions                                                         *)
(***************************************************************************)
Abs(n) == IF n < 0 THEN -n ELSE n

RECURSIVE GCD(_, _)
GCD(a, b) == IF b = 0 THEN a ELSE GCD(b, a % b)

\* the fraction n/d (d # 0) in lowest terms with a positive denominator
Frac(n, d) ==
    LET g == GCD(Abs(n), Abs(d))
        s == IF d < 0 THEN -1 ELSE 1
    IN  [n |-> (s * n) \div g, d |-> (s * d) \div g]

FInt(k) == [n |-> k, d |-> 1]
FAdd(a, b) == Frac(a.n * b.d + b.n * a.d, a.d * b.d)
FSub(a, b) == Frac(a.n * b.d - b.n * a.d, a.d * b.d)
FMul(a, b) == Frac(a.n * b.n, a.d * b.d)
FDiv(a, b) == Frac(a.n * b.d, a.d * b.n)
FLe(a, b) == a.n * b.d <= b.n * a.d
FLt(a, b) == a.n * b.d < b.n * a.d

Min(a, b) == IF a <= b THEN a ELSE b

(***************************************************************************)
(* Unit conversion: int(round(mm * dpi / 25.4))                            *)
(***************************************************************************)
\* 25.4 mm per inch, on lengths held in micrometres
MicronsPerInch == 25400

\* slip: a tie is rounded up instead of to the even neighbour
RoundHalfUp(n, d) ==
    LET q == n \div d
        r == n % d
    IN  IF 2 * r >= d THEN q + 1 ELSE q

\* Python round(n/d), d > 0: to the nearest integer, a tie to the even one
RoundHalfEven(n, d) ==
    LET q == n \div d
        r == n % d
    IN  IF 2 * r < d THEN q
        ELSE IF 2 * r > d THEN q + 1
        ELSE IF q % 2 = 0 THEN q ELSE q + 1

ToPx(mm, dpi) == RoundHalfEven(mm * dpi, MicronsPerInch)

\* margin_mm = 5
margin_mm == 5000


(***************************************************************************)
(* Ratio parser.  A text is a sequence of one-character strings.           *)
(***************************************************************************)
Digits == {"0", "1", "6"}
Alphabet == Digits \cup {":", "-", ".", " ", "x"}

DigitVal(c) == CASE c = "0" -> 0 [] c = "1" -> 1 [] c = "6" -> 6

RECURSIVE Pow10(_)
Pow10(k) == IF k = 0 THEN 1 ELSE 10 * Pow10(k - 1)

RECURSIVE DigitsVal(_)
DigitsVal(t) ==
    IF t = <<>> THEN 0
    ELSE 10 * DigitsVal(SubSeq(t, 1, Len(t) - 1)) + DigitVal(t[Len(t)])

\* str.strip(): leading and trailing whitespace removed
RECURSIVE LStrip(_)
LStrip(t) == IF t # <<>> /\ Head(t) = " " THEN LStrip(Tail(t)) ELSE t

RECURSIVE RStrip(_)
RStrip(t) ==
    IF t # <<>> /\ t[Len(t)] = " " THEN RStrip(SubSeq(t, 1, Len(t) - 1)) ELSE t

strip(t) == RStrip(LStrip(t))

\* ":" in text
HasColon(t) == \E i \in DOMAIN t : t[i] = ":"

\* str.split(":"): every colon separates, so k colons give k + 1 parts
RECURSIVE split(_)
split(t) ==
    IF ~HasColon(t) THEN <<t>>
    ELSE LET i == CHOOSE j \in DOMAIN t :
                      t[j] = ":" /\ \A k \in 1..(j - 1) : t[k] # ":"
         IN  <<SubSeq(t, 1, i - 1)>> \o split(SubSeq(t, i + 1, Len(t)))

\* float(): surrounding whitespace ignored, then [-] digits [. digits] with
\* at least one digit (over the model's alphabet); anything else raises
\* ValueError.
float(t) ==
    LET s == strip(t)
        neg == s # <<>> /\ Head(s) = "-"
        body == IF neg THEN Tail(s) ELSE s
        dots == {i \in DOMAIN body : body[i] = "."}
        dot == IF dots = {} THEN Len(body) + 1 ELSE CHOOSE i \in dots : TRUE
        ip == SubSeq(body, 1, dot - 1)
        fp == SubSeq(body, dot + 1, Len(body))
        wellformed ==
            /\ Cardinality(dots) <= 1
            /\ \A i \in DOMAIN body : body[i] \in Digits \cup {"."}
            /\ Len(ip) + Len(fp) >= 1
        mag == Frac(DigitsVal(ip) * Pow10(Len(fp)) + DigitsVal(fp), Pow10(Len(fp)))
    IN  IF wellformed
        THEN [ok |-> TRUE, val |-> IF neg THEN Frac(-mag.n, mag.d) ELSE mag]
        ELSE [ok |-> FALSE]

Value(v) == [kind |-> "value", val |-> v]
ValueError(m) == [kind |-> "ValueError", msg |-> m]

\* Dovetail-Joint.py: every failure is re-raised as a ValueError
DJ_parse_ratio(text0) ==
    LET text == strip(text0)
    IN  IF HasColon(text)
        THEN LET parts == split(text)
                 left == float(parts[1])
                 right == float(parts[2])
             IN  IF ~left.ok \/ ~right.ok \/ left.val.n = 0
                 THEN ValueError("Invalid ratio format. Use e.g. 6 or 1:6")
                 ELSE Value(FDiv(right.val, left.val))
        ELSE LET v == float(text)
             IN  IF v.ok THEN Value(v.val)
                 ELSE ValueError("Invalid ratio value. Use e.g. 6 or 1:6")

\* Joint-Template-Generator.py: float()'s own ValueError propagates
JTG_parse_ratio(text0) ==
    LET text == strip(text0)
    IN  IF HasColon(text)
        THEN LET parts == split(text)
                 left == float(parts[1])
                 right == float(parts[2])
             IN  IF ~left.ok \/ ~right.ok
                 THEN ValueError("could not convert string to float")
                 ELSE IF left.val.n = 0
                 THEN ValueError("Ratio left side cannot be zero.")
                 ELSE Value(FDiv(right.val, left.val))
        ELSE LET v == float(text)
             IN  IF v.ok THEN Value(v.val)
                 ELSE ValueError("could not convert string to float")

\* every text of at most n characters
RECURSIVE Texts(_)
Texts(n) ==
    IF n = 0 THEN {<<>>}
    ELSE LET shorter == Texts(n - 1)
         IN  shorter \cup {Append(t, c) : t \in shorter, c \in Alphabet}

(***************************************************************************)
(* Dovetail layout.  Coordinates are exact fractions; a tail is            *)
(* [lt, rt, rb, lb]: the x of its top-left, top-right, bottom-right and    *)
(* bottom-left corners.                                                    *)
(***************************************************************************)
\* total_units = num_tails * 1.0 + (num_tails + 1) * 0.5
\* slip: no pin is reserved outside the first and the last tail
total_units_NoEndPins(num_tails) == Frac(3 * num_tails - 1, 2)

total_units(num_tails) == Frac(3 * num_tails + 1, 2)

\* pin_fraction = 0.5
pin_fraction == Frac(1, 2)

\* slip: an inverted bottom edge is collapsed onto its left bound
DJ_TailBottom_CollapsesLeft(lt, rt, offset_px) ==
    LET tail_left_bottom_x == FAdd(lt, offset_px)
        tail_right_bottom_x == FSub(rt, offset_px)
    IN  IF FLe(tail_right_bottom_x, tail_left_bottom_x)
        THEN [lb |-> tail_left_bottom_x, rb |-> tail_left_bottom_x]
        ELSE [lb |-> tail_left_bottom_x, rb |-> tail_right_bottom_x]

\* Dovetail-Joint.py: the bottom bounds of a tail whose top is lt..rt
DJ_TailBottom(lt, rt, offset_px) ==
    LET tail_left_bottom_x == FAdd(lt, offset_px)
        tail_right_bottom_x == FSub(rt, offset_px)
        clamped == FMul(FAdd(tail_left_bottom_x, tail_right_bottom_x), Frac(1, 2))
    IN  IF FLe(tail_right_bottom_x, tail_left_bottom_x)
        THEN [lb |-> clamped, rb |-> clamped]
        ELSE [lb |-> tail_left_bottom_x, rb |-> tail_right_bottom_x]

\* slip: the inverted bottom edge is not collapsed
JTG_TailBottom_NoCollapse(lt, rt, offset_px) ==
    [lb |-> FAdd(lt, offset_px), rb |-> FSub(rt, offset_px)]

\* Joint-Template-Generator.py, raster
JTG_TailBottom(lt, rt, offset_px) ==
    LET tail_left_bottom_x == FAdd(lt, offset_px)
        tail_right_bottom_x == FSub(rt, offset_px)
        mid == FMul(FAdd(tail_left_bottom_x, tail_right_bottom_x), Frac(1, 2))
    IN  IF FLe(tail_right_bottom_x, tail_left_bottom_x)
        THEN [lb |-> mid, rb |-> mid]
        ELSE [lb |-> tail_left_bottom_x, rb |-> tail_right_bottom_x]

\* Joint-Template-Generator.py, vector
SVG_TailBottom(left_top, right_top, offset_mm) ==
    LET left_bottom == FAdd(left_top, offset_mm)
        right_bottom == FSub(right_top, offset_mm)
        mid == FMul(FAdd(left_bottom, right_bottom), Frac(1, 2))
    IN  IF FLe(right_bottom, left_bottom)
        THEN [lb |-> mid, rb |-> mid]
        ELSE [lb |-> left_bottom, rb |-> right_bottom]

\* slip: the pin is subtracted from the step between tails
TailLeftTop_PinSubtracted(i, tail_start_x, tail_top_width, pin_width) ==
    FAdd(tail_start_x, FMul(FInt(i), FSub(tail_top_width, pin_width)))

\* tail_left_top_x of the i-th tail (i from 0)
TailLeftTop(i, tail_start_x, tail_top_width, pin_width) ==
    FAdd(tail_start_x, FMul(FInt(i), FAdd(tail_top_width, pin_width)))

\* Dovetail-Joint.py: the polygons of the for loop, ratio_val # 0
DJ_tails(board_width_px, board_height_px, left_x, num_tails, ratio_val) ==
    LET unit_px == FDiv(FInt(board_width_px), total_units(num_tails))
        tail_top_width_px == unit_px
        pin_width_px == FMul(pin_fraction, unit_px)
        offset_px == FDiv(FInt(board_height_px), ratio_val)
        tail_start_x == FAdd(FInt(left_x), pin_width_px)
        polygon(i) ==
            LET lt == TailLeftTop(i, tail_start_x, tail_top_width_px, pin_width_px)
                rt == FAdd(lt, tail_top_width_px)
                b == DJ_TailBottom(lt, rt, offset_px)
            IN  [lt |-> lt, rt |-> rt, rb |-> b.rb, lb |-> b.lb]
    IN  [k \in 1..num_tails |-> polygon(k - 1)]

\* Joint-Template-Generator.py generate_dovetail_image: the polygons drawn
JTG_tails(board_width_px, board_height_px, left_x, num_tails, ratio_val) ==
    LET unit_px == FDiv(FInt(board_width_px), total_units(num_tails))
        tail_top_width_px == unit_px
        pin_width_px == FMul(pin_fraction, unit_px)
        offset_px == FDiv(FInt(board_height_px), ratio_val)
        tail_start_x == FAdd(FInt(left_x), pin_width_px)
        polygon(i) ==
            LET lt == TailLeftTop(i, tail_start_x, tail_top_width_px, pin_width_px)
                rt == FAdd(lt, tail_top_width_px)
                b == JTG_TailBottom(lt, rt, offset_px)
            IN  [lt |-> lt, rt |-> rt, rb |-> b.rb, lb |-> b.lb]
    IN  [k \in 1..num_tails |-> polygon(k - 1)]

\* save_dovetail_svg: the polygons written, in micrometres
SVG_tails(width, height, num_tails, ratio_val) ==
    LET unit_mm == FDiv(FInt(width), total_units(num_tails))
        tail_top_width_mm == unit_mm
        pin_width_mm == FMul(pin_fraction, unit_mm)
        offset_mm == FDiv(FInt(height), ratio_val)
        tail_start_x == pin_width_mm
        polygon(i) ==
            LET lt == TailLeftTop(i, tail_start_x, tail_top_width_mm, pin_width_mm)
                rt == FAdd(lt, tail_top_width_mm)
                b == SVG_TailBottom(lt, rt, offset_mm)
            IN  [lt |-> lt, rt |-> rt, rb |-> b.rb, lb |-> b.lb]
    IN  [k \in 1..num_tails |-> polygon(k - 1)]

(***************************************************************************)
(* Vector box-joint segments (save_box_svg), in micrometres.               *)
(***************************************************************************)
\* the loop runs while x < end_x - 1e-6 (mm): 1e-6 mm is 1/SvgEpsInv um
SvgEpsInv == 1000

RECURSIVE SVG_segs(_, _, _, _)
SVG_segs(x0, end_x0, finger_width_mm, draw_finger0) ==
    IF ~(x0 * SvgEpsInv < end_x0 * SvgEpsInv - 1) THEN <<>>
    ELSE LET seg == Min(finger_width_mm, end_x0 - x0)
         IN  <<[x |-> x0, w |-> seg, solid |-> draw_finger0]>>
             \o SVG_segs(x0 + seg, end_x0, finger_width_mm, ~draw_finger0)

\* slip: a rectangle is written for the gaps too
EmitsRect_GapsToo(draw_finger0, seg) == seg > 0

\* "if draw_finger and seg > 0"
EmitsRect(draw_finger0, seg) == draw_finger0 /\ seg > 0

\* save_box_svg: the shape elements appended to lines, the outline first
RECURSIVE SVG_rects(_)
SVG_rects(q) ==
    IF q = <<>> THEN <<>>
    ELSE (IF EmitsRect(q[1].solid, q[1].w)
          THEN <<[tag |-> "rect", x |-> q[1].x, width |-> q[1].w]>>
          ELSE <<>>)
         \o SVG_rects(Tail(q))

SVG_box_lines(width, q) ==
    <<[tag |-> "rect", x |-> 0, width |-> width]>> \o SVG_rects(q)

\* save_dovetail_svg: the outline, then one polygon per tail
SVG_dovetail_lines(width, T) ==
    <<[tag |-> "rect", x |-> 0, width |-> width]>>
    \o [k \in DOMAIN T |-> [tag |-> "polygon", points |-> T[k]]]

(***************************************************************************)
(* State of one request                                                    *)
(***************************************************************************)
VARIABLES
    prog,            \* the program whose Generate button was pressed
    req,             \* the form: entry fields, checkboxes, the dialog's answer
    pc,              \* position in the handler
    x,               \* the segmentation loop's cumulative offset
    draw_finger,     \* the segmentation loop's phase
    segs,            \* history: the raster segments of the loop, in order
    svg_segs,        \* the segments of save_box_svg
    tails,           \* the raster tail polygons
    svg_tails,       \* the polygons of save_dovetail_svg
    svg_lines,       \* the shape elements written to the SVG file, in order
    ratio_val,       \* what parse_ratio returned or raised
    dialog_opened,   \* filedialog.asksaveasfilename was called
    layout_started,  \* the drawing math has begun
    files,           \* extensions of the files written
    messages,        \* the "Generated:" lines collected
    error,           \* title of the messagebox.showerror shown, "" if none
    exc,             \* the exception caught, "" if none
    done_shown,      \* messagebox.showinfo was shown
    parsed,          \* results of the two ratio parsers on req.ratio_text
    ruler            \* the scale ruler drawn below the board

vars == <<prog, req, pc, x, draw_finger, segs, svg_segs, tails, svg_tails,
          svg_lines, ratio_val, dialog_opened, layout_started, files, messages,
          error, exc, done_shown, parsed, ruler>>

None == [kind |-> "none"]

\* the values the forms start with
DefaultReq ==
    [board_width_mm |-> 100000, board_height_mm |-> 40000, dpi |-> 300,
     finger_width_mm |-> 10000, start_with_finger |-> TRUE,
     num_tails |-> 3, ratio_text |-> <<"6">>, joint_type |-> "box",
     out_png |-> TRUE, out_svg |-> TRUE, out_pdf |-> FALSE, out_docx |-> FALSE,
     Document |-> TRUE, file_path |-> TRUE]

Dpis == {0, 127, 254, 300}

RatioTexts ==
    { <<"6">>, <<"1", ":", "6">>, <<"1">>, <<"0">>, <<"-", "6">>,
      <<"1", ":", "0">>, <<"-", "1", ":", "6">>, <<"0", ":", "6">>, <<"x">> }

\* the grids step by 0.1 mm
BoxGrid ==
    { [DefaultReq EXCEPT !.board_width_mm = 100 * w,
                         !.finger_width_mm = 100 * f,
                         !.board_height_mm = 100 * h, !.dpi = d,
                         !.start_with_finger = s] :
        w \in (-1)..MaxBoardWidth, f \in (-1)..(MaxBoardWidth + 1),
        h \in {0, MaxBoardHeight}, d \in Dpis, s \in BOOLEAN }

\* board 100 mm, finger 10 mm, height 40 mm, 300 dpi
BoxScenario ==
    { [DefaultReq EXCEPT !.start_with_finger = s] : s \in BOOLEAN }

DovetailGrid ==
    { [DefaultReq EXCEPT !.joint_type = "dovetail",
                         !.board_width_mm = 100 * w,
                         !.board_height_mm = 100 * h, !.num_tails = n,
                         !.ratio_text = r, !.dpi = d] :
        w \in (-1)..MaxBoardWidth, h \in 0..MaxBoardHeight,
        n \in (-1)..MaxTails, r \in RatioTexts, d \in Dpis }

\* board 100 mm, depth 40 mm, 3 tails, ratio 1:6, 300 dpi
DovetailScenario ==
    { [DefaultReq EXCEPT !.joint_type = "dovetail",
                         !.ratio_text = <<"1", ":", "6">>] }

\* requests on which every combination of output formats is tried
FormatSamples ==
    BoxScenario \cup DovetailScenario
    \cup { [DefaultReq EXCEPT !.board_width_mm = 100 * MaxBoardWidth,
                              !.finger_width_mm = 100 * f,
                              !.board_height_mm = 100] :
             f \in {2, MaxBoardWidth + 1} }

\* board widths around the ruler's cap, between two ticks and just below a
\* tick (250 mm, 200.1 mm, 200 mm, 199.995 mm, 199.9 mm, 95 mm, 49.995 mm,
\* 10 mm)
RulerWidths == {250000, 200100, 200000, 199995, 199900, 95000, 49995, 10000}

\* a single finger as wide as the board keeps the segment history short
RulerBoxSamples ==
    { [DefaultReq EXCEPT !.board_width_mm = w, !.finger_width_mm = w] :
        w \in RulerWidths }

RulerDovetailSamples ==
    { [DefaultReq EXCEPT !.joint_type = "dovetail", !.board_width_mm = w] :
        w \in RulerWidths }

WithFormats(R) ==
    { [r EXCEPT !.out_png = a, !.out_svg = b, !.out_pdf = c, !.out_docx = e,
                !.Document = m] :
        r \in R, a \in BOOLEAN, b \in BOOLEAN, c \in BOOLEAN, e \in BOOLEAN,
        m \in BOOLEAN }

WithDialog(R) == { [r EXCEPT !.file_path = p] : r \in R, p \in BOOLEAN }

InitRest ==
    /\ pc = "start"
    /\ x = 0
    /\ draw_finger = FALSE
    /\ segs = <<>>
    /\ svg_segs = <<>>
    /\ tails = <<>>
    /\ svg_tails = <<>>
    /\ svg_lines = <<>>
    /\ ratio_val = None
    /\ dialog_opened = FALSE
    /\ layout_started = FALSE
    /\ files = {}
    /\ messages = <<>>
    /\ error = ""
    /\ exc = ""
    /\ done_shown = FALSE
    /\ parsed = [dj |-> None, jtg |-> None]
    /\ ruler = None

Init ==
    /\ \/ prog = "Box-Joint"
          /\ req \in WithDialog(BoxGrid \cup BoxScenario \cup RulerBoxSamples)
       \/ prog = "Dovetail-Joint"
          /\ req \in WithDialog(DovetailGrid \cup DovetailScenario
                                \cup RulerDovetailSamples)
       \/ prog = "Joint-Template-Generator"
          /\ req \in WithDialog(BoxGrid \cup BoxScenario \cup DovetailGrid
                                \cup DovetailScenario \cup RulerBoxSamples
                                \cup RulerDovetailSamples)
                     \cup WithDialog(WithFormats(FormatSamples))
    /\ InitRest

(***************************************************************************)
(* Pixel quantities of the request                                         *)
(***************************************************************************)
margin_px == ToPx(margin_mm, req.dpi)
board_width_px == ToPx(req.board_width_mm, req.dpi)
board_height_px == ToPx(req.board_height_mm, req.dpi)
finger_width_px == ToPx(req.finger_width_mm, req.dpi)
left_x == margin_px
right_x == left_x + board_width_px
end_x == right_x

\* Box-Joint.py, one iteration of "while x < end_x"
BJ_SegStep ==
    LET seg_width == Min(finger_width_px, end_x - x)
    IN  /\ segs' = IF Len(segs) < MaxSegs
                   THEN Append(segs, [x |-> x, w |-> seg_width,
                                      solid |-> draw_finger])
                   ELSE segs
        /\ x' = x + seg_width
        /\ draw_finger' = ~draw_finger

\* generate_box_image, one iteration of "while x < end_x"
JTG_SegStep ==
    LET seg_width == Min(finger_width_px, end_x - x)
    IN  /\ segs' = IF Len(segs) < MaxSegs
                   THEN Append(segs, [x |-> x, w |-> seg_width,
                                      solid |-> draw_finger])
                   ELSE segs
        /\ x' = x + seg_width
        /\ draw_finger' = ~draw_finger

(***************************************************************************)
(* The scale ruler below the board (the same code in all drawing routines) *)
(***************************************************************************)
\* min(board_width_mm, 200)
ruler_cap_mm == 200000

tick_step_mm == 10000

\* the 0.01 of "ruler_length_mm + 0.01"
tick_tolerance_mm == 10

\* slip: the tick on the ruler's end is dropped
TickDue_Strict(mm_val, ruler_length_mm) == mm_val < ruler_length_mm

\* "while mm_val <= ruler_length_mm + 0.01"
TickDue(mm_val, ruler_length_mm) ==
    mm_val <= ruler_length_mm + tick_tolerance_mm

RECURSIVE Ticks(_, _, _, _)
Ticks(mm_val, ruler_length_mm, dpi, x0) ==
    IF TickDue(mm_val, ruler_length_mm)
    THEN <<[mm |-> mm_val, px |-> x0 + ToPx(mm_val, dpi),
            label |-> mm_val \div 1000]>>
         \o Ticks(mm_val + tick_step_mm, ruler_length_mm, dpi, x0)
    ELSE <<>>

Ruler(board_width_mm, dpi, x0) ==
    LET ruler_length_mm == Min(board_width_mm, ruler_cap_mm)
        ruler_length_px == ToPx(ruler_length_mm, dpi)
    IN  [kind |-> "ruler", length_mm |-> ruler_length_mm,
         from_px |-> x0, to_px |-> x0 + ruler_length_px,
         ticks |-> Ticks(0, ruler_length_mm, dpi, x0)]

\* slip: the handler stays on the step that raised
Fail_StaysOnStep(title, exception) ==
    /\ error' = title
    /\ exc' = exception
    /\ pc' = pc

Fail(title, exception) ==
    /\ error' = title
    /\ exc' = exception
    /\ pc' = "done"

(***************************************************************************)
(* Box-Joint.py: generate_template                                         *)
(***************************************************************************)
\* slip: the finger width is not compared with the board width
BJ_Valid_NoWidthCheck(r) ==
    ~(r.board_width_mm <= 0 \/ r.finger_width_mm <= 0
      \/ r.board_height_mm <= 0 \/ r.dpi <= 0)

BJ_Valid(r) ==
    /\ ~(r.board_width_mm <= 0 \/ r.finger_width_mm <= 0
         \/ r.board_height_mm <= 0 \/ r.dpi <= 0)
    /\ ~(r.finger_width_mm > r.board_width_mm)

BJ_Validate ==
    /\ prog = "Box-Joint" /\ pc = "start"
    /\ IF BJ_Valid(req)
       THEN pc' = "dialog" /\ UNCHANGED <<error, exc>>
       ELSE Fail("Invalid input", "")
    /\ UNCHANGED <<prog, req, x, draw_finger, segs, svg_segs, tails, svg_tails,
                   svg_lines,
                   ratio_val, dialog_opened, layout_started, files, messages,
                   done_shown, parsed, ruler>>

BJ_Dialog ==
    /\ prog = "Box-Joint" /\ pc = "dialog"
    /\ dialog_opened' = TRUE
    /\ pc' = IF req.file_path THEN "layout" ELSE "done"
    /\ UNCHANGED <<prog, req, x, draw_finger, segs, svg_segs, tails, svg_tails,
                   svg_lines,
                   ratio_val, layout_started, files, messages, error, exc,
                   done_shown, parsed, ruler>>

BJ_Layout ==
    /\ prog = "Box-Joint" /\ pc = "layout"
    /\ layout_started' = TRUE
    /\ x' = left_x
    /\ draw_finger' = req.start_with_finger
    /\ pc' = "loop"
    /\ UNCHANGED <<prog, req, segs, svg_segs, tails, svg_tails,
                   svg_lines, ratio_val,
                   dialog_opened, files, messages, error, exc, done_shown,
                   parsed, ruler>>

BJ_Loop ==
    /\ prog = "Box-Joint" /\ pc = "loop"
    /\ x < end_x
    /\ BJ_SegStep
    /\ UNCHANGED <<prog, req, pc, svg_segs, tails, svg_tails,
                   svg_lines, ratio_val,
                   dialog_opened, layout_started, files, messages, error, exc,
                   done_shown, parsed, ruler>>

BJ_LoopExit ==
    /\ prog = "Box-Joint" /\ pc = "loop"
    /\ ~(x < end_x)
    /\ ruler' = Ruler(req.board_width_mm, req.dpi, left_x)
    /\ pc' = "save"
    /\ UNCHANGED <<prog, req, x, draw_finger, segs, svg_segs, tails, svg_tails,
                   svg_lines,
                   ratio_val, dialog_opened, layout_started, files, messages,
                   error, exc, done_shown, parsed>>

\* img.save either writes the file or raises (the disk, the path)
BJ_Save ==
    /\ prog = "Box-Joint" /\ pc = "save"
    /\ \/ /\ files' = files \cup {"png"}
          /\ done_shown' = TRUE
          /\ pc' = "done"
          /\ UNCHANGED <<error, exc>>
       \/ /\ Fail("Error", "OSError")
          /\ UNCHANGED <<files, done_shown>>
    /\ UNCHANGED <<prog, req, x, draw_finger, segs, svg_segs, tails, svg_tails,
                   svg_lines,
                   ratio_val, dialog_opened, layout_started, messages, parsed,
                   ruler>>

(***************************************************************************)
(* Dovetail-Joint.py: generate_template                                    *)
(***************************************************************************)
DJ_Valid(r) ==
    /\ ~(r.board_width_mm <= 0 \/ r.board_height_mm <= 0
         \/ r.num_tails <= 0 \/ r.dpi <= 0)
    /\ ~(r.num_tails < 1)

DJ_Validate ==
    /\ prog = "Dovetail-Joint" /\ pc = "start"
    /\ ratio_val' = DJ_parse_ratio(req.ratio_text)
    /\ IF ratio_val'.kind = "ValueError"
       THEN Fail("Invalid input", "ValueError")
       ELSE IF DJ_Valid(req)
       THEN pc' = "dialog" /\ UNCHANGED <<error, exc>>
       ELSE Fail("Invalid input", "")
    /\ UNCHANGED <<prog, req, x, draw_finger, segs, svg_segs, tails, svg_tails,
                   svg_lines,
                   dialog_opened, layout_started, files, messages, done_shown,
                   parsed, ruler>>

DJ_Dialog ==
    /\ prog = "Dovetail-Joint" /\ pc = "dialog"
    /\ dialog_opened' = TRUE
    /\ pc' = IF req.file_path THEN "layout" ELSE "done"
    /\ UNCHANGED <<prog, req, x, draw_finger, segs, svg_segs, tails, svg_tails,
                   svg_lines,
                   ratio_val, layout_started, files, messages, error, exc,
                   done_shown, parsed, ruler>>

\* the drawing math; board_height_px / ratio_val raises ZeroDivisionError
\* when ratio_val is 0
DJ_Layout ==
    /\ prog = "Dovetail-Joint" /\ pc = "layout"
    /\ layout_started' = TRUE
    /\ IF ratio_val.val.n = 0
       THEN Fail("Error", "ZeroDivisionError") /\ UNCHANGED <<tails, ruler>>
       ELSE /\ tails' = DJ_tails(board_width_px, board_height_px, left_x,
                                 req.num_tails, ratio_val.val)
            /\ ruler' = Ruler(req.board_width_mm, req.dpi, left_x)
            /\ pc' = "save"
            /\ UNCHANGED <<error, exc>>
    /\ UNCHANGED <<prog, req, x, draw_finger, segs, svg_segs, svg_tails,
                   svg_lines,
                   ratio_val, dialog_opened, files, messages, done_shown,
                   parsed>>

DJ_Save ==
    /\ prog = "Dovetail-Joint" /\ pc = "save"
    /\ \/ /\ files' = files \cup {"png"}
          /\ done_shown' = TRUE
          /\ pc' = "done"
          /\ UNCHANGED <<error, exc>>
       \/ /\ Fail("Error", "OSError")
          /\ UNCHANGED <<files, done_shown>>
    /\ UNCHANGED <<prog, req, x, draw_finger, segs, svg_segs, tails, svg_tails,
                   svg_lines,
                   ratio_val, dialog_opened, layout_started, messages, parsed,
                   ruler>>

(***************************************************************************)
(* Joint-Template-Generator.py: generate_templates                         *)
(***************************************************************************)
JTG_BoardValid(r) ==
    ~(r.board_width_mm <= 0 \/ r.board_height_mm <= 0 \/ r.dpi <= 0)

outputs_selected(r) == r.out_png \/ r.out_svg \/ r.out_pdf \/ r.out_docx

JTG_FingerValid(r) ==
    ~(r.finger_width_mm <= 0 \/ r.finger_width_mm > r.board_width_mm)

JTG_TailsValid(r) == ~(r.num_tails < 1)

JTG_RatioValid(v) == ~(v.n <= 0)

JTG_Validate ==
    /\ prog = "Joint-Template-Generator" /\ pc = "start"
    /\ IF ~JTG_BoardValid(req)
       THEN Fail("Invalid input", "") /\ UNCHANGED ratio_val
       ELSE IF ~outputs_selected(req)
       THEN Fail("No output format", "") /\ UNCHANGED ratio_val
       ELSE IF req.joint_type = "box"
       THEN /\ UNCHANGED ratio_val
            /\ IF JTG_FingerValid(req)
               THEN pc' = "image" /\ UNCHANGED <<error, exc>>
               ELSE Fail("Invalid input", "")
       ELSE IF ~JTG_TailsValid(req)
       THEN Fail("Invalid input", "") /\ UNCHANGED ratio_val
       ELSE /\ ratio_val' = JTG_parse_ratio(req.ratio_text)
            /\ IF ratio_val'.kind = "ValueError"
               THEN Fail("Invalid input", "ValueError")
               ELSE IF JTG_RatioValid(ratio_val'.val)
               THEN pc' = "image" /\ UNCHANGED <<error, exc>>
               ELSE Fail("Invalid input", "")
    /\ UNCHANGED <<prog, req, x, draw_finger, segs, svg_segs, tails, svg_tails,
                   svg_lines,
                   dialog_opened, layout_started, files, messages, done_shown,
                   parsed, ruler>>

\* generate_box_image up to the loop
JTG_BoxImage ==
    /\ prog = "Joint-Template-Generator" /\ pc = "image"
    /\ req.joint_type = "box"
    /\ layout_started' = TRUE
    /\ x' = left_x
    /\ draw_finger' = req.start_with_finger
    /\ pc' = "loop"
    /\ UNCHANGED <<prog, req, segs, svg_segs, tails, svg_tails,
                   svg_lines, ratio_val,
                   dialog_opened, files, messages, error, exc, done_shown,
                   parsed, ruler>>

JTG_Loop ==
    /\ prog = "Joint-Template-Generator" /\ pc = "loop"
    /\ x < end_x
    /\ JTG_SegStep
    /\ UNCHANGED <<prog, req, pc, svg_segs, tails, svg_tails,
                   svg_lines, ratio_val,
                   dialog_opened, layout_started, files, messages, error, exc,
                   done_shown, parsed, ruler>>

JTG_LoopExit ==
    /\ prog = "Joint-Template-Generator" /\ pc = "loop"
    /\ ~(x < end_x)
    /\ ruler' = Ruler(req.board_width_mm, req.dpi, left_x)
    /\ pc' = "dialog"
    /\ UNCHANGED <<prog, req, x, draw_finger, segs, svg_segs, tails, svg_tails,
                   svg_lines,
                   ratio_val, dialog_opened, layout_started, files, messages,
                   error, exc, done_shown, parsed>>

\* generate_dovetail_image
JTG_DovetailImage ==
    /\ prog = "Joint-Template-Generator" /\ pc = "image"
    /\ req.joint_type # "box"
    /\ layout_started' = TRUE
    /\ tails' = JTG_tails(board_width_px, board_height_px, left_x,
                          req.num_tails, ratio_val.val)
    /\ ruler' = Ruler(req.board_width_mm, req.dpi, left_x)
    /\ pc' = "dialog"
    /\ UNCHANGED <<prog, req, x, draw_finger, segs, svg_segs, svg_tails,
                   svg_lines,
                   ratio_val, dialog_opened, files, messages, error, exc,
                   done_shown, parsed>>

JTG_Dialog ==
    /\ prog = "Joint-Template-Generator" /\ pc = "dialog"
    /\ dialog_opened' = TRUE
    /\ pc' = IF req.file_path THEN "png" ELSE "done"
    /\ UNCHANGED <<prog, req, x, draw_finger, segs, svg_segs, tails, svg_tails,
                   svg_lines,
                   ratio_val, layout_started, files, messages, error, exc,
                   done_shown, parsed, ruler>>

\* the master PNG is saved whether or not PNG is selected
JTG_Png ==
    /\ prog = "Joint-Template-Generator" /\ pc = "png"
    /\ \/ /\ files' = files \cup {"png"}
          /\ messages' = IF req.out_png THEN Append(messages, "PNG")
                         ELSE messages
          /\ pc' = "pdf"
          /\ UNCHANGED <<error, exc>>
       \/ /\ Fail("Error", "OSError")
          /\ UNCHANGED <<files, messages>>
    /\ UNCHANGED <<prog, req, x, draw_finger, segs, svg_segs, tails, svg_tails,
                   svg_lines,
                   ratio_val, dialog_opened, layout_started, done_shown,
                   parsed, ruler>>

JTG_Pdf ==
    /\ prog = "Joint-Template-Generator" /\ pc = "pdf"
    /\ \/ /\ ~req.out_pdf
          /\ pc' = "svg"
          /\ UNCHANGED <<files, messages, error, exc>>
       \/ /\ req.out_pdf
          /\ files' = files \cup {"pdf"}
          /\ messages' = Append(messages, "PDF")
          /\ pc' = "svg"
          /\ UNCHANGED <<error, exc>>
       \/ /\ req.out_pdf
          /\ Fail("Error", "OSError")
          /\ UNCHANGED <<files, messages>>
    /\ UNCHANGED <<prog, req, x, draw_finger, segs, svg_segs, tails, svg_tails,
                   svg_lines,
                   ratio_val, dialog_opened, layout_started, done_shown,
                   parsed, ruler>>

JTG_Svg ==
    /\ prog = "Joint-Template-Generator" /\ pc = "svg"
    /\ \/ /\ ~req.out_svg
          /\ pc' = "docx"
          /\ UNCHANGED <<files, messages, error, exc, svg_segs, svg_tails,
                         svg_lines>>
       \/ /\ req.out_svg
          /\ IF req.joint_type = "box"
             THEN /\ svg_segs' = SVG_segs(0, req.board_width_mm,
                                          req.finger_width_mm,
                                          req.start_with_finger)
                  /\ svg_lines' = SVG_box_lines(req.board_width_mm, svg_segs')
                  /\ UNCHANGED svg_tails
             ELSE /\ svg_tails' = SVG_tails(req.board_width_mm,
                                            req.board_height_mm,
                                            req.num_tails, ratio_val.val)
                  /\ svg_lines' = SVG_dovetail_lines(req.board_width_mm,
                                                     svg_tails')
                  /\ UNCHANGED svg_segs
          /\ files' = files \cup {"svg"}
          /\ messages' = Append(messages, "SVG (LightBurn)")
          /\ pc' = "docx"
          /\ UNCHANGED <<error, exc>>
       \/ /\ req.out_svg
          /\ Fail("Error", "OSError")
          /\ UNCHANGED <<files, messages, svg_segs, svg_tails, svg_lines>>
    /\ UNCHANGED <<prog, req, x, draw_finger, segs, tails, ratio_val,
                   dialog_opened, layout_started, done_shown, parsed, ruler>>

\* slip: the capability is reported missing although it was imported
DocxMissing_Always(r) == TRUE

\* "Document is None or Mm is None": the docx import failed at load time
DocxMissing(r) == ~r.Document

JTG_Docx ==
    /\ prog = "Joint-Template-Generator" /\ pc = "docx"
    /\ \/ /\ ~req.out_docx
          /\ pc' = "info"
          /\ UNCHANGED <<files, messages, error, exc>>
       \/ /\ req.out_docx
          /\ DocxMissing(req)
          /\ Fail("Error", "RuntimeError")
          /\ UNCHANGED <<files, messages>>
       \/ /\ req.out_docx
          /\ ~DocxMissing(req)
          /\ files' = files \cup {"docx"}
          /\ messages' = Append(messages, "Word (DOCX)")
          /\ pc' = "info"
          /\ UNCHANGED <<error, exc>>
       \/ /\ req.out_docx
          /\ ~DocxMissing(req)
          /\ Fail("Error", "OSError")
          /\ UNCHANGED <<files, messages>>
    /\ UNCHANGED <<prog, req, x, draw_finger, segs, svg_segs, tails, svg_tails,
                   svg_lines,
                   ratio_val, dialog_opened, layout_started, done_shown,
                   parsed, ruler>>

JTG_Info ==
    /\ prog = "Joint-Template-Generator" /\ pc = "info"
    /\ done_shown' = TRUE
    /\ pc' = "done"
    /\ UNCHANGED <<prog, req, x, draw_finger, segs, svg_segs, tails, svg_tails,
                   svg_lines,
                   ratio_val, dialog_opened, layout_started, files, messages,
                   error, exc, parsed, ruler>>

(***************************************************************************)
(* The ratio parsers applied to a text                                     *)
(***************************************************************************)
ParseRatio ==
    /\ prog = "parse_ratio" /\ pc = "start"
    /\ parsed' = [dj |-> DJ_parse_ratio(req.ratio_text),
                  jtg |-> JTG_parse_ratio(req.ratio_text)]
    /\ pc' = "done"
    /\ UNCHANGED <<prog, req, x, draw_finger, segs, svg_segs, tails, svg_tails,
                   svg_lines,
                   ratio_val, dialog_opened, layout_started, files, messages,
                   error, exc, done_shown, ruler>>

ParseInit ==
    /\ prog = "parse_ratio"
    /\ req \in { [DefaultReq EXCEPT !.ratio_text = t] : t \in Texts(MaxLen) }
    /\ InitRest

(***************************************************************************)
(* Specifications                                                          *)
(***************************************************************************)
Next ==
    \/ BJ_Validate \/ BJ_Dialog \/ BJ_Layout \/ BJ_Loop \/ BJ_LoopExit
    \/ BJ_Save
    \/ DJ_Validate \/ DJ_Dialog \/ DJ_Layout \/ DJ_Save
    \/ JTG_Validate \/ JTG_BoxImage \/ JTG_Loop \/ JTG_LoopExit
    \/ JTG_DovetailImage \/ JTG_Dialog \/ JTG_Png \/ JTG_Pdf \/ JTG_Svg
    \/ JTG_Docx \/ JTG_Info

Spec == Init /\ [][Next]_vars

\* The box-joint requests of the two programs that segment a board.  A
\* handler is sequential code that keeps running: its next step is taken.
BoxInit ==
    /\ prog \in {"Box-Joint", "Joint-Template-Generator"}
    /\ req \in WithDialog(BoxGrid \cup BoxScenario)
    /\ InitRest

BoxNext ==
    \/ BJ_Validate \/ BJ_Dialog \/ BJ_Layout \/ BJ_Loop \/ BJ_LoopExit
    \/ BJ_Save
    \/ JTG_Validate \/ JTG_BoxImage \/ JTG_Loop \/ JTG_LoopExit
    \/ JTG_Dialog \/ JTG_Png \/ JTG_Pdf \/ JTG_Svg \/ JTG_Docx \/ JTG_Info

LiveSpec == BoxInit /\ [][BoxNext]_vars /\ WF_vars(BoxNext)

ParseSpec == ParseInit /\ [][ParseRatio]_vars

(***************************************************************************)
(* Properties                                                              *)
(***************************************************************************)
IsBox ==
    \/ prog = "Box-Joint"
    \/ prog = "Joint-Template-Generator" /\ req.joint_type = "box"

IsDovetail ==
    \/ prog = "Dovetail-Joint"
    \/ prog = "Joint-Template-Generator" /\ req.joint_type # "box"

RECURSIVE SumW(_)
SumW(q) == IF q = <<>> THEN 0 ELSE q[1].w + SumW(Tail(q))

\* the i-th segment (from 0) is solid exactly when (i is even) equals
\* start_with_finger
Alternates(q) ==
    \A i \in DOMAIN q :
        q[i].solid = (((i - 1) % 2 = 0) = req.start_with_finger)

\* the segmentation loop has been left
Segmented == IsBox /\ layout_started /\ pc # "loop"

\* C1: every validated box-joint request gets raster segments whose widths
\* sum exactly to board_width_px and that alternate solid/gap from the
\* configured phase: once the segmenter runs, it ends with such segments.
C1_SegmentsCoverBoard ==
    (IsBox /\ pc = "loop")
        ~> (Segmented /\ SumW(segs) = board_width_px /\ Alternates(segs))

\* C2: for every request that passes validation the segmentation loop
\* terminates: the cumulative offset x eventually reaches end_x, also when
\* finger_width_px is rounded from less than half a pixel.
C2_LoopTerminates == (IsBox /\ pc = "loop") ~> (x = end_x)

\* board 100 mm, finger 10 mm, 300 dpi, starting with a finger
IsBoxScenario ==
    /\ IsBox
    /\ req.board_width_mm = 100000 /\ req.finger_width_mm = 10000
    /\ req.dpi = 300 /\ req.start_with_finger

\* C3: the request board 100 mm, finger 10 mm, 300 dpi, finger first gives
\* exactly 10 alternating segments, each of the full finger width (118 px),
\* the first solid, and no further partial segment.
C3_TenFullSegments ==
    (IsBoxScenario /\ Segmented) =>
        /\ Len(segs) = 10
        /\ \A i \in DOMAIN segs : segs[i].w = 118
        /\ Alternates(segs)
        /\ segs[1].solid

\* C4: a dovetail request whose parsed ratio is zero or negative is rejected
\* with a validation error before any layout computation, and no file is
\* written, in both dovetail front-ends.
C4_NonPositiveRatioRejected ==
    (IsDovetail /\ ratio_val.kind = "value" /\ ratio_val.val.n <= 0) =>
        /\ pc = "done" /\ error = "Invalid input"
        /\ ~layout_started /\ tails = <<>> /\ svg_tails = <<>>
        /\ files = {}

ValidDovetail ==
    /\ IsDovetail
    /\ req.board_width_mm > 0 /\ req.board_height_mm > 0 /\ req.dpi > 0
    /\ req.num_tails >= 1
    /\ ratio_val.kind = "value" /\ ratio_val.val.n > 0

\* N polygons over a board of width W; consecutive tails do not overlap on
\* the top edge nor on the bottom edge, and the top gap is the pin width
TailsDisjoint(T, W) ==
    /\ Len(T) = req.num_tails
    /\ \A i \in 1..(Len(T) - 1) :
          /\ FLe(T[i].rt, T[i + 1].lt)
          /\ FLe(T[i].rb, T[i + 1].lb)
          /\ FSub(T[i + 1].lt, T[i].rt) = Frac(W, 3 * req.num_tails + 1)
          /\ FLe(FInt(0), FSub(T[i + 1].lt, T[i].rt))

\* C5: for every valid dovetail input exactly N tail polygons are produced
\* and consecutive tails never overlap, on the top edge and on the bottom
\* edge; the gap between top edges is the non-negative pin width.
C5_TailsDisjoint ==
    ValidDovetail =>
        /\ layout_started => TailsDisjoint(tails, board_width_px)
        /\ "svg" \in files => TailsDisjoint(svg_tails, req.board_width_mm)

C5_Witness ==
    /\ ValidDovetail /\ prog = "Joint-Template-Generator"
    /\ board_width_px > 0
    /\ Len(tails) >= 2 /\ Len(svg_tails) >= 2

\* the degenerate-tail policy on one tail t whose slope offset is off
TailPolicy(t, off) ==
    LET inset_left == FAdd(t.lt, off)
        inset_right == FSub(t.rt, off)
        half_top == FMul(FSub(t.rt, t.lt), Frac(1, 2))
    IN  /\ FLe(half_top, off) <=> FLe(inset_right, inset_left)
        /\ IF FLe(half_top, off)
           THEN /\ t.lb = t.rb
                /\ t.lb = FMul(FAdd(inset_left, inset_right), Frac(1, 2))
           ELSE /\ t.lb = inset_left /\ t.rb = inset_right
                /\ FLt(t.lb, t.rb)
        /\ FLe(t.lb, t.rb)

\* C6: a tail whose slope offset (depth / R) is at least half its top width
\* has both bottom bounds at their common midpoint, never crossing; any
\* other tail has its top bounds inset by the offset on each side, with
\* left_bottom < right_bottom.  Raster and vector code apply the same
\* policy.
C6_DegenerateTailPolicy ==
    (IsDovetail /\ ratio_val.kind = "value" /\ ratio_val.val.n # 0) =>
        /\ \A i \in DOMAIN tails :
              TailPolicy(tails[i], FDiv(FInt(board_height_px), ratio_val.val))
        /\ \A i \in DOMAIN svg_tails :
              TailPolicy(svg_tails[i],
                         FDiv(FInt(req.board_height_mm), ratio_val.val))

C6_Witness ==
    /\ \E i \in DOMAIN tails :
          /\ tails[i].lb = tails[i].rb
          /\ FLt(FSub(tails[i].rt, FDiv(FInt(board_height_px), ratio_val.val)),
                 FAdd(tails[i].lt, FDiv(FInt(board_height_px), ratio_val.val)))
    /\ \E i \in DOMAIN svg_tails :
          /\ svg_tails[i].lb = svg_tails[i].rb
          /\ FLt(svg_tails[i].lt, svg_tails[i].rt)

Colons(t) == Cardinality({i \in DOMAIN t : t[i] = ":"})

BareNumber(t) == Colons(t) = 0 /\ float(t).ok

TwoPart(t) ==
    /\ Colons(t) = 1
    /\ float(split(t)[1]).ok /\ float(split(t)[2]).ok

ParserContract(p, t) ==
    /\ BareNumber(t) => (p.kind = "value" /\ p.val = float(t).val)
    /\ TwoPart(t) =>
          IF float(split(t)[1]).val.n = 0
          THEN p.kind = "ValueError"
          ELSE /\ p.kind = "value"
               /\ p.val = FDiv(float(split(t)[2]).val, float(split(t)[1]).val)
    /\ (Colons(t) >= 1 /\ \E k \in DOMAIN split(t) : ~float(split(t)[k]).ok)
          => p.kind = "ValueError"
    /\ p.kind = "value" => (BareNumber(t) \/ TwoPart(t))

\* C7: the ratio parser maps a bare number to that number and "L:R" to R/L,
\* raises ValueError when the left side is zero or any side is non-numeric
\* or empty, and returns a value only for a bare number or a two-part L:R
\* form with both sides numeric.
C7_ParserContract ==
    pc = "done" =>
        /\ ParserContract(parsed.dj, strip(req.ratio_text))
        /\ ParserContract(parsed.jtg, strip(req.ratio_text))

\* C8: for the same box-joint request the vector export and the raster
\* export have the same number of segments with the same solid/gap tag at
\* each position, hence the same number of filled shapes.
C8_VectorMatchesRaster ==
    (IsBox /\ "svg" \in files) =>
        /\ Len(svg_segs) = Len(segs)
        /\ \A i \in DOMAIN svg_segs \cap DOMAIN segs :
              svg_segs[i].solid = segs[i].solid
        /\ Cardinality({i \in DOMAIN svg_segs :
                            svg_segs[i].solid /\ svg_segs[i].w > 0})
           = Cardinality({i \in DOMAIN segs : segs[i].solid /\ segs[i].w > 0})

\* the request breaks a precondition of its joint type
InvalidRequest ==
    \/ req.board_width_mm <= 0 \/ req.board_height_mm <= 0 \/ req.dpi <= 0
    \/ IsBox /\ (req.finger_width_mm <= 0
                 \/ req.finger_width_mm > req.board_width_mm)
    \/ IsDovetail /\ req.num_tails < 1

\* the titles of the message boxes that reject the form's values
ValidationTitles == {"Invalid input", "No output format"}

\* C9: a request with a non-positive board width, height, DPI or finger
\* width, a finger wider than the board, or fewer than one tail ends in a
\* validation error before any layout: no segment or polygon is computed, no
\* save dialog is opened, no file is written.
C9_InvalidRejectedBeforeLayout ==
    InvalidRequest =>
        /\ pc \in {"start", "done"}
        /\ pc = "done" => error \in ValidationTitles
        /\ segs = <<>> /\ svg_segs = <<>> /\ tails = <<>> /\ svg_tails = <<>>
        /\ ~layout_started /\ ~dialog_opened
        /\ files = {} /\ ~done_shown

C9_Witness ==
    /\ pc = "done" /\ error = "Invalid input"
    /\ req.board_width_mm > 0 /\ req.board_height_mm > 0 /\ req.dpi > 0
    /\ IsBox /\ req.finger_width_mm > req.board_width_mm

\* C10: with the DOCX capability missing, the dependency error is raised
\* only in a request that selected DOCX, after every other selected format
\* was written; a request that did not select DOCX runs to its success
\* message as if the capability were there.
C10_DocxMissingOnlyWhenSelected ==
    prog = "Joint-Template-Generator" =>
        /\ exc = "RuntimeError" =>
              /\ req.out_docx /\ ~req.Document
              /\ "png" \in files
              /\ req.out_pdf => "pdf" \in files
              /\ req.out_svg => "svg" \in files
        /\ (~req.out_docx /\ ~req.Document /\ pc = "done" /\ exc = ""
            /\ error = "" /\ req.file_path) =>
              /\ done_shown
              /\ req.out_pdf => "pdf" \in files
              /\ req.out_svg => "svg" \in files
              /\ "png" \in files

C10_Witness ==
    /\ exc = "RuntimeError" /\ ~req.Document
    /\ req.out_png /\ req.out_pdf /\ req.out_svg
    /\ {"png", "pdf", "svg"} \subseteq files

(***************************************************************************)
(* Output files of the combined generator                                  *)
(***************************************************************************)
Formats == {"png", "pdf", "svg", "docx"}

Selected(r, f) ==
    CASE f = "png" -> r.out_png
      [] f = "pdf" -> r.out_pdf
      [] f = "svg" -> r.out_svg
      [] f = "docx" -> r.out_docx

Successful == prog = "Joint-Template-Generator" /\ done_shown

\* C11: in a successful request of the combined generator a file of a format
\* is written if and only if that format was selected; no PNG file is written
\* when PNG is not selected.
C11_FileIffSelected ==
    Successful => \A f \in Formats : f \in files <=> Selected(req, f)

(***************************************************************************)
(* The scale ruler                                                         *)
(***************************************************************************)
RulerDrawn == ruler # None

Capped(w) == IF w <= 200000 THEN w ELSE 200000

\* the labelled ticks T are the multiples of 10 mm from 0 up to reach
TicksUpTo(T, reach) ==
    /\ Len(T) = (reach \div 10000) + 1
    /\ \A i \in 1..Len(T) :
          /\ T[i].mm = (i - 1) * 10000
          /\ T[i].label = (i - 1) * 10

\* the ruler of a 250 mm board has the 21 ticks 0, 10, ..., 200
Ruler250 ==
    req.board_width_mm = 250000 =>
        /\ Len(ruler.ticks) = 21
        /\ ruler.ticks[21].label = 200
        /\ \A i \in 1..21 : ruler.ticks[i].mm <= 200000

\* C12: for every board width w > 0 the ruler's baseline spans min(w, 200) mm
\* and the labelled ticks are exactly the multiples of 10 mm from 0 up to the
\* capped length, the final tick included when it falls on the capped length,
\* and no tick lies beyond the baseline's end; for w = 250 mm the ticks are
\* 0, 10, ..., 200 (21 ticks).
C12_RulerTicks ==
    RulerDrawn =>
        LET L == Capped(req.board_width_mm)
            T == ruler.ticks
        IN  /\ req.board_width_mm > 0
            /\ ruler.length_mm = L
            /\ ruler.to_px - ruler.from_px = ToPx(L, req.dpi)
            /\ TicksUpTo(T, L)
            /\ (L % 10000 = 0 => T[Len(T)].mm = L)
            /\ \A i \in 1..Len(T) :
                  /\ T[i].mm <= L
                  /\ ruler.from_px <= T[i].px /\ T[i].px <= ruler.to_px
            /\ Ruler250

\* C12, amended: the baseline spans min(w, 200) mm and the labelled ticks are
\* exactly the multiples of 10 mm from 0 up to the capped length plus the
\* 0.01 mm tolerance: the tick on the capped length is included, and so is a
\* tick that the capped length misses by at most 0.01 mm, which then lies
\* beyond the baseline's end; every tick within the capped length is drawn
\* within the baseline; for w = 250 mm the ticks are 0, 10, ..., 200.
C12_RulerTicksWithinTolerance ==
    RulerDrawn =>
        LET L == Capped(req.board_width_mm)
            T == ruler.ticks
        IN  /\ req.board_width_mm > 0
            /\ ruler.length_mm = L
            /\ ruler.to_px - ruler.from_px = ToPx(L, req.dpi)
            /\ TicksUpTo(T, L + 10)
            /\ (L % 10000 = 0 => T[Len(T)].mm = L)
            /\ \A i \in 1..Len(T) :
                  /\ T[i].mm <= L + 10
                  /\ ruler.from_px <= T[i].px
                  /\ T[i].mm <= L => T[i].px <= ruler.to_px
            /\ Ruler250

\* a 49.995 mm board at 300 dpi: the tick labelled 50 mm is drawn one pixel
\* past the end of the baseline
C12_Witness ==
    /\ RulerDrawn
    /\ req.board_width_mm = 49995 /\ req.dpi = 300
    /\ Len(ruler.ticks) = 6
    /\ ruler.ticks[6].label = 50
    /\ ruler.to_px - ruler.from_px = 590
    /\ ruler.ticks[6].px - ruler.from_px = 591

(***************************************************************************)
(* The half-unit pin convention                                            *)
(***************************************************************************)
\* the tails T of a board of width W and depth H that starts at origin
PinConvention(T, origin, W, H) ==
    LET N == req.num_tails
        tail_width == FDiv(FInt(W), FAdd(FInt(N), FMul(FInt(N + 1), Frac(1, 2))))
        pin_width == FMul(tail_width, Frac(1, 2))
        inset == FDiv(FInt(H), ratio_val.val)
    IN  /\ Len(T) = N
        /\ \A i \in 1..N :
              /\ FSub(T[i].rt, T[i].lt) = tail_width
              /\ \/ /\ FSub(T[i].lb, T[i].lt) = inset
                    /\ FSub(T[i].rt, T[i].rb) = inset
                 \/ /\ FLe(pin_width, inset)
                    /\ T[i].lb = T[i].rb
        /\ \A i \in 1..(N - 1) : FSub(T[i + 1].lt, T[i].rt) = pin_width
        /\ FSub(T[1].lt, FInt(origin)) = pin_width
        /\ FSub(FInt(origin + W), T[N].rt) = pin_width

IsDovetailScenario ==
    /\ IsDovetail
    /\ req.board_width_mm = 100000 /\ req.board_height_mm = 40000
    /\ req.num_tails = 3 /\ req.ratio_text = <<"1", ":", "6">>

SvgWritten == prog = "Joint-Template-Generator" /\ "svg" \in files

Solid(q) == SelectSeq(q, LAMBDA s : s.solid)

Outline(l) == l.tag = "rect" /\ l.x = 0 /\ l.width = req.board_width_mm

C15_OffsetBoundedSegmentsPositive ==
    (IsBox /\ layout_started) =>
        /\ left_x <= x /\ x <= end_x
        /\ \A i \in DOMAIN segs :
              /\ segs[i].w > 0
              /\ segs[i].w <= finger_width_px
              /\ i < Len(segs) => segs[i].w = finger_width_px
        /\ (Segmented /\ segs # <<>> /\ Len(segs) < MaxSegs) =>
              segs[Len(segs)].x + segs[Len(segs)].w = end_x

(***************************************************************************)
(* Order of the export steps and errors                                    *)
(***************************************************************************)
\* the files a step may write and the positions it may lead to
ExportStep(at, ext, after) ==
    pc = at => /\ files' \ files \subseteq {ext}
               /\ pc' \in {after, "done"}

\* C16: in the combined generator the export steps of a request run in the
\* order PNG, PDF, SVG, DOCX; an error is terminal: no later step runs, no
\* success message is shown, the files already written remain, nothing is
\* retried.
C16_ExportOrderErrorTerminal ==
    [][prog = "Joint-Template-Generator" =>
         /\ ExportStep("png", "png", "pdf")
         /\ ExportStep("pdf", "pdf", "svg")
         /\ ExportStep("svg", "svg", "docx")
         /\ ExportStep("docx", "docx", "info")
         /\ pc \notin {"png", "pdf", "svg", "docx"} => files' = files
         /\ files \subseteq files'
         /\ error = ""
         /\ error' # "" => /\ pc' = "done"
                           /\ files' = files
                           /\ ~done_shown'
         /\ done_shown' => error' = "" /\ pc = "info"]_vars

\* the SVG step raised after the PNG and the PDF were written
C16_Witness ==
    /\ prog = "Joint-Template-Generator"
    /\ error = "Error" /\ exc = "OSError"
    /\ req.out_pdf /\ req.out_svg /\ req.out_docx
    /\ files = {"png", "pdf"}
    /\ pc = "done" /\ ~done_shown

(***************************************************************************)
(* Tails inside the board                                                  *)
(***************************************************************************)
Collapsed(t) == t.lb = t.rb

\* the tails T of a board of width W that starts at origin
TailsInside(T, origin, W) ==
    \A i \in DOMAIN T :
        /\ FLe(T[i].lt, T[i].lb)
        /\ FLe(T[i].lb, T[i].rb)
        /\ FLe(T[i].rb, T[i].rt)
        /\ FLe(FInt(0), FSub(T[i].lt, FInt(origin)))
        /\ FLe(FSub(T[i].rt, FInt(origin)), FInt(W))
        /\ Collapsed(T[i]) =>
              T[i].lb = FMul(FAdd(T[i].lt, T[i].rt), Frac(1, 2))

\* C17: for every dovetail layout computed with N >= 1 and R > 0 every tail
\* polygon stays inside the board outline and narrows toward the bottom:
\* left top <= left bottom <= right bottom <= right top, 0 <= left top and
\* right top <= board width relative to the board's left edge, also for a
\* collapsed tail, whose bottom point is the midpoint of its top edge.
C17_TailsInsideBoard ==
    ValidDovetail =>
        /\ TailsInside(tails, left_x, board_width_px)
        /\ TailsInside(svg_tails, 0, req.board_width_mm)

\* a layout of Dovetail-Joint.py with several tails, one of them collapsed
C17_Witness ==
    /\ ValidDovetail /\ prog = "Dovetail-Joint"
    /\ Len(tails) >= 2
    /\ \E i \in DOMAIN tails :
          Collapsed(tails[i]) /\ FLt(tails[i].lt, tails[i].rt)
    /\ FLt(FInt(left_x), tails[1].lt)

=============================================================================
